---- MODULE Spec2Model ----
(***************************************************************************)
(* Deck state of the Pandemic tracker's Qt front end (qt.py): the three    *)
(* card columns of MainWindow (draw, discard, exclude), each a Deck that   *)
(* keeps two Python lists, `cards` (card names, in display order) and      *)
(* `buttons` (the CardButton widgets, in creation order).                  *)
(*                                                                         *)
(* Card names are modelled as the integers 1..MaxName; the order of the    *)
(* integers stands for the lexicographic order of the strings.  A          *)
(* CardButton is a record [id, card]: `id` is the identity of the Python   *)
(* object (list.remove on buttons compares widgets by identity), `card`    *)
(* is button.card.name.  Widget geometry, colours and the Qt layout items  *)
(* are presentation and are not part of the state; card.color ranges over  *)
(* the keys of COLOR, so the lookup on line 308 does not raise.            *)
(***************************************************************************)
EXTENDS Integers, Sequences, FiniteSets

VARIABLES cards, buttons, created, has_initialised, checked, call

vars == <<cards, buttons, created, has_initialised, checked, call>>

\* ---------------------------------------------------------------- bounds
MaxName == 2
MaxButtons == 3
MaxIndex == 2

Names == 1..MaxName
Indices == (0 - MaxIndex)..MaxIndex

\* The keys of MainWindow.deck.
Decks == {"draw", "discard", "exclude"}

\* Keys a destination request can carry: the deck keys, and a key of
\* MainWindow.destination that is not a key of MainWindow.deck.
DestinationKeys == Decks \cup {"draw_top"}

NoButton == [id |-> 0, card |-> 0]

\* -------------------------------------------------- Python list semantics
Range(s) == {s[i] : i \in DOMAIN s}

\* `x in s` on a list.
\* Faulty variant: looks at the first element only.
NameInCardsFirstOnly(s, x) == Len(s) > 0 /\ s[1] = x
NameInCards(s, x) == x \in Range(s)

\* list.insert(index, x), index 0-based: a negative index counts from the
\* end, and an index outside the list is clamped to its nearest end.
ClampIndex(n, index) ==
    IF index < 0
    THEN (IF n + index < 0 THEN 0 ELSE n + index)
    ELSE (IF index > n THEN n ELSE index)

\* Faulty variant: the insertion lands one place too far.
ListInsertAfter(s, index, x) ==
    LET k == ClampIndex(Len(s), index)
        j == IF k < Len(s) THEN k + 1 ELSE k
    IN  SubSeq(s, 1, j) \o <<x>> \o SubSeq(s, j + 1, Len(s))
ListInsert(s, index, x) ==
    LET k == ClampIndex(Len(s), index)
    IN  SubSeq(s, 1, k) \o <<x>> \o SubSeq(s, k + 1, Len(s))

\* Position (1-based) of the first element of s equal to x; 0 when absent.
FirstIndex(s, x) ==
    IF x \in Range(s)
    THEN CHOOSE i \in DOMAIN s : s[i] = x /\ \A j \in 1..(i - 1) : s[j] # x
    ELSE 0

DeleteAt(s, i) == SubSeq(s, 1, i - 1) \o SubSeq(s, i + 1, Len(s))

\* list.remove(x) when x is in the list: the first occurrence goes.
\* Faulty variants: every occurrence goes, the last one goes, the entry
\* after the first occurrence goes.
ListRemoveAll(s, x) == SelectSeq(s, LAMBDA y : y # x)
ListRemoveLast(s, x) ==
    DeleteAt(s, CHOOSE i \in DOMAIN s : s[i] = x /\ \A j \in (i + 1)..Len(s) : s[j] # x)
ListRemoveNext(s, x) ==
    LET i == FirstIndex(s, x) IN DeleteAt(s, IF i < Len(s) THEN i + 1 ELSE i)
ListRemove(s, x) == DeleteAt(s, FirstIndex(s, x))

\* bisect.bisect_left(a, x): lo = 0, hi = len(a); while lo < hi:
\* mid = (lo + hi) // 2; if a[mid] < x: lo = mid + 1 else: hi = mid.
RECURSIVE bisect_loop(_, _, _, _)
bisect_loop(a, x, lo, hi) ==
    IF lo < hi
    THEN LET mid == (lo + hi) \div 2
         IN  IF a[mid + 1] < x
             THEN bisect_loop(a, x, mid + 1, hi)
             ELSE bisect_loop(a, x, lo, mid)
    ELSE lo

\* Faulty variant: the search starts at lo = 1.
bisect_left_from_one(a, x) == bisect_loop(a, x, IF Len(a) > 0 THEN 1 ELSE 0, Len(a))
bisect_left(a, x) == bisect_loop(a, x, 0, Len(a))

\* ------------------------------------------------------------ Deck (pure)
\* A deck value is [cards |-> <<names>>, buttons |-> <<buttons>>].
DeckOf(d) == [cards |-> cards[d], buttons |-> buttons[d]]

\* CardButton(card): a new widget object, distinct from every one created
\* so far.
NewButton(ids, n) == [id |-> Cardinality(ids) + 1, card |-> n]

\* Deck.insert_button_at_index: cards.insert(index, card.name);
\* buttons.append(button); return button.
InsertButtonAtIndex(D, b, index) ==
    [cards |-> ListInsert(D.cards, index, b.card),
     buttons |-> Append(D.buttons, b),
     outcome |-> "button"]

\* Deck.add_card_button: insert_button_at_index(card, 0).
DeckAddCardButton(D, b) == InsertButtonAtIndex(D, b, 0)

\* DrawDeck.add_card_button: bisect insertion unless the name is present.
DrawDeckAddCardButton(D, b) ==
    IF ~NameInCards(D.cards, b.card)
    THEN InsertButtonAtIndex(D, b, bisect_left(D.cards, b.card))
    ELSE [cards |-> D.cards, buttons |-> D.buttons, outcome |-> "None"]

\* Method resolution: MainWindow.deck['draw'] is a DrawDeck, the other two
\* are plain Decks.
AddCardButtonOn(d, D, b) ==
    IF d = "draw" THEN DrawDeckAddCardButton(D, b) ELSE DeckAddCardButton(D, b)

\* Deck.remove_card_button: cards.remove(button.card.name) raises ValueError
\* when the name is absent; buttons.remove(button) then raises ValueError
\* when this widget is not in the list, after cards was already changed.
\* removeWidget and deleteLater act on the widget only.
RemoveCardButton(D, b) ==
    IF ~NameInCards(D.cards, b.card)
    THEN [cards |-> D.cards, buttons |-> D.buttons, outcome |-> "ValueError"]
    ELSE IF b \notin Range(D.buttons)
    THEN [cards |-> ListRemove(D.cards, b.card), buttons |-> D.buttons,
          outcome |-> "ValueError"]
    ELSE [cards |-> ListRemove(D.cards, b.card),
          buttons |-> ListRemove(D.buttons, b),
          outcome |-> "ok"]

\* ------------------------------------------------------------------ state
\* `call` records the last call made on the decks and how it ended: the
\* method, the deck it was made on, the destination key of a transfer, and
\* what came back ("button": a CardButton was returned; "None": the
\* duplicate branch of DrawDeck.add_card_button; "ValueError": a list.remove
\* raised; "ok": the call returned normally).
NoCall == [op |-> "init", deck |-> "none", dest |-> "none", outcome |-> "ok"]

\* MainWindow.__init__: three empty decks, has_initialised False, no
\* destination radio button checked.
Init ==
    /\ cards = [d \in Decks |-> <<>>]
    /\ buttons = [d \in Decks |-> <<>>]
    /\ created = {}
    /\ has_initialised = FALSE
    /\ checked = "none"
    /\ call = NoCall

\* --------------------------------------------------------------- actions
add_card_button(d, n) ==
    LET b == NewButton(created, n)
        R == AddCardButtonOn(d, DeckOf(d), b)
    IN  /\ R.outcome = "button" => Cardinality(created) < MaxButtons
        /\ cards' = [cards EXCEPT ![d] = R.cards]
        /\ buttons' = [buttons EXCEPT ![d] = R.buttons]
        /\ created' = IF R.outcome = "button" THEN created \cup {b} ELSE created
        /\ call' = [op |-> "add_card_button", deck |-> d, dest |-> "none",
                    outcome |-> R.outcome]
        /\ UNCHANGED <<has_initialised, checked>>

insert_button_at_index(d, n, index) ==
    /\ Cardinality(created) < MaxButtons
    /\ LET b == NewButton(created, n)
           R == InsertButtonAtIndex(DeckOf(d), b, index)
       IN  /\ cards' = [cards EXCEPT ![d] = R.cards]
           /\ buttons' = [buttons EXCEPT ![d] = R.buttons]
           /\ created' = created \cup {b}
           /\ call' = [op |-> "insert_button_at_index", deck |-> d,
                       dest |-> "none", outcome |-> R.outcome]
           /\ UNCHANGED <<has_initialised, checked>>

remove_card_button(d, b) ==
    LET R == RemoveCardButton(DeckOf(d), b)
    IN  /\ cards' = [cards EXCEPT ![d] = R.cards]
        /\ buttons' = [buttons EXCEPT ![d] = R.buttons]
        /\ created' = created
        /\ call' = [op |-> "remove_card_button", deck |-> d, dest |-> "none",
                    outcome |-> R.outcome]
        /\ UNCHANGED <<has_initialised, checked>>

clear(d) ==
    /\ cards' = [cards EXCEPT ![d] = <<>>]
    /\ buttons' = [buttons EXCEPT ![d] = <<>>]
    /\ created' = created
    /\ call' = [op |-> "clear", deck |-> d, dest |-> "none", outcome |-> "ok"]
    /\ UNCHANGED <<has_initialised, checked>>

\* MainWindow.initialise: the 'exclude_deck' radio button is checked, every
\* deck is cleared, has_initialised becomes True.
initialise ==
    /\ checked' = "exclude_deck"
    /\ cards' = [d \in Decks |-> <<>>]
    /\ buttons' = [d \in Decks |-> <<>>]
    /\ created' = created
    /\ has_initialised' = TRUE
    /\ call' = [op |-> "initialise", deck |-> "none", dest |-> "none",
                outcome |-> "ok"]

AddCardButton == \E d \in Decks, n \in Names : add_card_button(d, n)
InsertButtonAtIndexCall ==
    \E d \in Decks, n \in Names, i \in Indices : insert_button_at_index(d, n, i)
RemoveCardButtonCall == \E d \in Decks, b \in created : remove_card_button(d, b)
Clear == \E d \in Decks : clear(d)

\* Any caller, any arguments: the four methods of Deck / DrawDeck.
Next == AddCardButton \/ InsertButtonAtIndexCall \/ RemoveCardButtonCall \/ Clear

Spec == Init /\ [][Next]_vars

\* ------------------------------------------------------------- transfers
\* The dispatcher that moves a card between decks: the deck holding a name
\* is found by probing draw, discard, exclude in that order.
HolderIn(C, n) ==
    IF NameInCards(C["draw"], n) THEN "draw"
    ELSE IF NameInCards(C["discard"], n) THEN "discard"
    ELSE IF NameInCards(C["exclude"], n) THEN "exclude"
    ELSE "none"

Holder(n) == HolderIn(cards, n)

\* The widget a transfer of name n acts on: a button of the holding deck
\* that carries the name.
TransferButtons(n) ==
    IF Holder(n) = "none"
    THEN {NoButton}
    ELSE {b \in Range(buttons[Holder(n)]) : b.card = n}

\* One transfer request on decks (C, B): locate the source, validate the
\* destination key, then remove_card_button(b) on the source and
\* add_card_button (new widget nb) on the destination.
\* Faulty variant: the destination key is validated after the removal.
TransferStepLateValidation(C, B, n, k, b, nb) ==
    LET src == HolderIn(C, n)
    IN  IF src = "none"
        THEN [cards |-> C, buttons |-> B, outcome |-> "CardNotFound"]
        ELSE LET R1 == RemoveCardButton([cards |-> C[src], buttons |-> B[src]], b)
                 C1 == [C EXCEPT ![src] = R1.cards]
                 B1 == [B EXCEPT ![src] = R1.buttons]
             IN  IF k \notin Decks
                 THEN [cards |-> C1, buttons |-> B1, outcome |-> "InvalidDestination"]
                 ELSE LET R2 == AddCardButtonOn(k, [cards |-> C1[k], buttons |-> B1[k]], nb)
                      IN  [cards |-> [C1 EXCEPT ![k] = R2.cards],
                           buttons |-> [B1 EXCEPT ![k] = R2.buttons],
                           outcome |-> IF R2.outcome = "button"
                                       THEN "ok" ELSE "DuplicateCard"]
TransferStep(C, B, n, k, b, nb) ==
    LET src == HolderIn(C, n)
    IN  IF src = "none"
        THEN [cards |-> C, buttons |-> B, outcome |-> "CardNotFound"]
        ELSE IF k \notin Decks
        THEN [cards |-> C, buttons |-> B, outcome |-> "InvalidDestination"]
        ELSE LET R1 == RemoveCardButton([cards |-> C[src], buttons |-> B[src]], b)
                 C1 == [C EXCEPT ![src] = R1.cards]
                 B1 == [B EXCEPT ![src] = R1.buttons]
                 R2 == AddCardButtonOn(k, [cards |-> C1[k], buttons |-> B1[k]], nb)
             IN  IF R1.outcome = "ValueError"
                 THEN [cards |-> C1, buttons |-> B1, outcome |-> "ValueError"]
                 ELSE [cards |-> [C1 EXCEPT ![k] = R2.cards],
                       buttons |-> [B1 EXCEPT ![k] = R2.buttons],
                       outcome |-> IF R2.outcome = "button"
                                   THEN "ok" ELSE "DuplicateCard"]

transfer(n, k) ==
    \E b \in TransferButtons(n) :
        LET nb == NewButton(created, n)
            R == TransferStep(cards, buttons, n, k, b, nb)
        IN  /\ R.outcome = "ok" => Cardinality(created) < MaxButtons
            /\ cards' = R.cards
            /\ buttons' = R.buttons
            /\ created' = IF R.outcome = "ok" THEN created \cup {nb} ELSE created
            /\ call' = [op |-> "transfer", deck |-> Holder(n), dest |-> k,
                        outcome |-> R.outcome]
            /\ UNCHANGED <<has_initialised, checked>>

Transfer == \E n \in Names, k \in DestinationKeys : transfer(n, k)

\* A game: the decks are seeded with add_card_button, cards are moved with
\* transfers, and initialise starts over.
NextGame == AddCardButton \/ Transfer \/ initialise

SpecGame == Init /\ [][NextGame]_vars

\* The methods named for the draw deck's ordering: add, remove, clear.
NextOrdered == AddCardButton \/ RemoveCardButtonCall \/ Clear

SpecOrdered == Init /\ [][NextOrdered]_vars

\* ------------------------------------------------------------ properties
Count(s, x) == Cardinality({i \in DOMAIN s : s[i] = x})
SameNames(s, t) == \A x \in Names : Count(s, x) = Count(t, x)
TotalCards(C) == Len(C["draw"]) + Len(C["discard"]) + Len(C["exclude"])
TotalOf(C, x) == Count(C["draw"], x) + Count(C["discard"], x) + Count(C["exclude"], x)
DecksWith(C, x) == {d \in Decks : \E i \in DOMAIN C[d] : C[d][i] = x}
InNoDeck(C, x) == DecksWith(C, x) = {}
StrictlyAscending(s) == \A i \in 1..(Len(s) - 1) : s[i] < s[i + 1]

\* C1: in every state reached from empty decks by add_card_button,
\* remove_card_button and clear calls, the draw deck's cards are strictly
\* ascending by name (sorted, no name twice).
C1_DrawStrictlyAscending == StrictlyAscending(cards["draw"])

\* C1 witness: a card was added to the draw deck in front of a larger name,
\* and the deck holds every name.
C1_Witness ==
    /\ call.op = "add_card_button" /\ call.deck = "draw" /\ call.outcome = "button"
    /\ Len(cards["draw"]) = MaxName
    /\ \E b \in Range(buttons["draw"]) :
          /\ b.id = Cardinality(created)
          /\ b.card = cards["draw"][1]

\* C2 as stated: a transfer made in a state where every name is in at most
\* one deck leaves every name in at most one deck, and no name that was in
\* a deck is in none afterwards.
C2_OneDeckPerName_AsStated ==
    [][\A n \in Names, k \in DestinationKeys :
          (/\ call'.op = "transfer" /\ call'.dest = k
           /\ \A x \in Names : Cardinality(DecksWith(cards, x)) <= 1
           /\ transfer(n, k))
          => /\ \A x \in Names : Cardinality(DecksWith(cards', x)) <= 1
             /\ \A x \in Names : ~InNoDeck(cards, x) => ~InNoDeck(cards', x)]_vars

\* C2 amended: a transfer made in a state where every name occurs at most
\* once over the three decks together leaves every name occurring at most
\* once over the three decks, and the names present are the same before
\* and after.
C2_OneOccurrencePerName ==
    [][\A n \in Names, k \in DestinationKeys :
          (/\ call'.op = "transfer" /\ call'.dest = k
           /\ \A x \in Names : TotalOf(cards, x) <= 1
           /\ transfer(n, k))
          => /\ \A x \in Names : TotalOf(cards', x) <= 1
             /\ \A x \in Names : InNoDeck(cards, x) <=> InNoDeck(cards', x)]_vars

\* C2 witness: a transfer to another deck has succeeded with two names in
\* play, each occurring once.
C2_Witness ==
    /\ call.op = "transfer" /\ call.outcome = "ok" /\ call.deck # call.dest
    /\ \A x \in Names : TotalOf(cards, x) <= 1
    /\ TotalCards(cards) >= 2

\* C3: a transfer whose card is found and whose destination key is a deck
\* key succeeds, takes exactly one entry out of the source deck and puts
\* exactly one entry into the destination deck, so the number of entries
\* over the three decks is unchanged.
C3_Conservation ==
    [][\A n \in Names, k \in Decks :
          (/\ call'.op = "transfer" /\ call'.dest = k
           /\ ~InNoDeck(cards, n)
           /\ transfer(n, k))
          => /\ call'.outcome = "ok"
             /\ TotalCards(cards') = TotalCards(cards)
             /\ \A d \in Decks :
                   Len(cards'[d]) = Len(cards[d])
                                    - (IF d = call'.deck THEN 1 ELSE 0)
                                    + (IF d = k THEN 1 ELSE 0)]_vars

\* C3 witness: a transfer has succeeded while a pile holds the same name
\* twice.
C3_Witness ==
    /\ call.op = "transfer" /\ call.outcome = "ok"
    /\ \E d \in {"discard", "exclude"}, x \in Names : Count(cards[d], x) >= 2

\* C4: add_card_button on the draw deck with a name already in its cards
\* changes neither cards nor buttons of any deck and returns None.
C4_DuplicateRejected ==
    [][\A n \in Names :
          (/\ call'.op = "add_card_button" /\ call'.deck = "draw"
           /\ \E i \in DOMAIN cards["draw"] : cards["draw"][i] = n
           /\ add_card_button("draw", n))
          => /\ cards' = cards
             /\ buttons' = buttons
             /\ call'.outcome = "None"]_vars

\* C4 witness: the duplicate branch was taken on a draw deck of two cards.
C4_Witness ==
    /\ call.op = "add_card_button" /\ call.deck = "draw" /\ call.outcome = "None"
    /\ Len(cards["draw"]) >= 2

\* C5: a transfer request whose name is in none of the decks, or whose
\* destination key is not a deck key, ends in an error outcome and leaves
\* cards and buttons of all three decks as they were.
C5_FailedTransferMutatesNothing ==
    [][\A n \in Names, k \in DestinationKeys :
          (/\ call'.op = "transfer" /\ call'.dest = k
           /\ InNoDeck(cards, n) \/ k \notin Decks
           /\ transfer(n, k))
          => /\ call'.outcome \in {"CardNotFound", "InvalidDestination"}
             /\ cards' = cards
             /\ buttons' = buttons]_vars

\* C5 witness: a request with an unknown destination key has failed while
\* the requested card was in a deck.
C5_Witness ==
    /\ call.op = "transfer" /\ call.outcome = "InvalidDestination"
    /\ call.deck \in Decks
    /\ TotalCards(cards) >= 2

\* C6: removing a card from a deck and adding it again to the same deck
\* keeps the deck's multiset of names; on the draw deck the cards sequence
\* is the same element by element.
C6_RoundTrip ==
    [][\A n \in Names, d \in Decks :
          (/\ call'.op = "transfer" /\ call'.dest = d /\ call'.deck = d
           /\ transfer(n, d))
          => /\ call'.outcome = "ok"
             /\ SameNames(cards'[d], cards[d])
             /\ (d = "draw" => cards'[d] = cards[d])]_vars

\* C6 witness: a card has gone out of and back into a draw deck of two
\* cards.
C6_Witness ==
    /\ call.op = "transfer" /\ call.outcome = "ok"
    /\ call.deck = "draw" /\ call.dest = "draw"
    /\ Len(cards["draw"]) >= 2

\* C7 as stated: insert_button_at_index with index < 0 or index > len(cards)
\* fails with InvalidPosition and leaves cards unchanged; with an index in
\* 0..len(cards) it returns the button, the name is at that index and
\* cards is one longer.
C7_InsertBoundsChecked ==
    [][\A d \in Decks, n \in Names, i \in Indices :
          (/\ call'.op = "insert_button_at_index" /\ call'.deck = d
           /\ insert_button_at_index(d, n, i))
          => IF i < 0 \/ i > Len(cards[d])
             THEN call'.outcome = "InvalidPosition" /\ cards' = cards
             ELSE /\ call'.outcome = "button"
                  /\ Len(cards'[d]) = Len(cards[d]) + 1
                  /\ cards'[d][i + 1] = n]_vars

\* C8: remove_card_button with a button whose name is in the deck's cards
\* deletes exactly the first occurrence of the name: cards is one shorter
\* and every other entry keeps its place in the order.
C8_RemovesFirstOccurrence ==
    [][\A d \in Decks, b \in created :
          (/\ call'.op = "remove_card_button" /\ call'.deck = d
           /\ \E i \in DOMAIN cards[d] : cards[d][i] = b.card
           /\ remove_card_button(d, b))
          => \E i \in DOMAIN cards[d] :
                /\ cards[d][i] = b.card
                /\ \A j \in 1..(i - 1) : cards[d][j] # b.card
                /\ Len(cards'[d]) = Len(cards[d]) - 1
                /\ \A j \in 1..(Len(cards[d]) - 1) :
                      cards'[d][j] = IF j < i THEN cards[d][j] ELSE cards[d][j + 1]]_vars

\* C8 witness: a removal has returned normally and left two cards of
\* different names in the deck.
C8_Witness ==
    /\ call.op = "remove_card_button" /\ call.outcome = "ok"
    /\ Len(cards[call.deck]) >= 2
    /\ cards[call.deck][1] # cards[call.deck][2]

\* C9: add_card_button on the discard or exclude deck returns a button, puts
\* the name at index 0 and keeps the previous cards behind it in order.
C9_FrontInsertion ==
    [][\A d \in {"discard", "exclude"}, n \in Names :
          (/\ call'.op = "add_card_button" /\ call'.deck = d
           /\ add_card_button(d, n))
          => /\ call'.outcome = "button"
             /\ cards'[d] = <<n>> \o cards[d]]_vars

\* C9 witness: a name already in the pile was added again and sits on top.
C9_Witness ==
    /\ call.op = "add_card_button" /\ call.outcome = "button"
    /\ call.deck \in {"discard", "exclude"}
    /\ Len(cards[call.deck]) >= 2
    /\ \E i \in 2..Len(cards[call.deck]) : cards[call.deck][i] = cards[call.deck][1]

\* C10 as stated: in every state each deck's cards and buttons have the same
\* length and the same multiset of names.
C10_ListsInStep ==
    \A d \in Decks :
        /\ Len(cards[d]) = Len(buttons[d])
        /\ \A x \in Names :
              Count(cards[d], x) = Cardinality({i \in DOMAIN buttons[d] : buttons[d][i].card = x})

====
